---- MODULE Spec2Model ----
(***************************************************************************)
(* Model of GITPUSH/web_app.py: a Streamlit chat page over a hosted chat   *)
(* provider.  One action is one run of the script: the run an interaction  *)
(* of the user triggers, or the run that st.rerun() triggers.              *)
(*                                                                         *)
(* Text is a sequence of tokens.  Text typed by the user is a sequence of  *)
(* one-character tokens; the literal pieces of the f-strings of the        *)
(* script are one token each.  The emoji of the persona names are left     *)
(* out of the tokens.                                                      *)
(* An optional value (None or an object) is a sequence of length 0 or 1.   *)
(***************************************************************************)
EXTENDS Integers, Sequences, FiniteSets, TLC

VARIABLES
    messages,        \* st.session_state.messages
    personality,     \* st.session_state.personality
    chat_session,    \* st.session_state.chat_session
    api_key_valid,   \* st.session_state.api_key_valid
    model,           \* st.session_state.model
    configured_key,  \* the key genai.configure() last stored (process wide)
    pc,              \* "rest": waiting for the user; "rerun": st.rerun() pending;
                     \* "probe": inside validate_api_key, after genai.configure()
    last,            \* what the most recent run triggered by the user did
    peer             \* the key page of a second session of the same process

vars == <<messages, personality, chat_session, api_key_valid, model,
          configured_key, pc, last, peer>>

----------------------------------------------------------------------------
(* Bounds *)

\* user messages in the log at most
MaxTurns == 2
\* fragments concatenated into one input of the crisis filter at most
MaxParts == 3

----------------------------------------------------------------------------
(* Values *)

None == <<>>

PersonalityKeys == {"sage", "nurture", "spark", "bridge"}

PERSONALITIES ==
    [key \in PersonalityKeys |->
        CASE key = "sage" ->
               [name |-> "Sage", role |-> "Youth Mental Health Counselor",
                prompt |-> "You are Sage, a supportive AI counselor for Indian youth aged 13-25. ..."]
          [] key = "nurture" ->
               [name |-> "Nurture", role |-> "Parenting Guide",
                prompt |-> "You are Nurture, an experienced parenting guide for Indian families. ..."]
          [] key = "spark" ->
               [name |-> "Spark", role |-> "Child Development Specialist",
                prompt |-> "You are Spark, a child development specialist creating engaging, age-appropriate activities. ..."]
          [] OTHER ->
               [name |-> "Bridge", role |-> "Family Communication Mediator",
                prompt |-> "You are Bridge, a family communication specialist helping resolve conflicts and improve understanding. ..."]]

AgeGroups == {"13-17", "18-25", "Parent/Guardian", "Other"}

Concerns == {"Mental health", "Academic stress", "Parenting",
             "Child development", "Family communication"}

\* the slider runs from MoodMin to MoodMax and starts at MoodDefault;
\* the positions tried are these three
MoodMin == 1
MoodMax == 10
MoodDefault == 5
Moods == {MoodMin, MoodDefault, MoodMax}

\* what the user may have typed into the key field ("" is the empty field)
ApiKeys == {"", "key-A", "key-B"}

\* what the user may type into the chat input (never empty)
ChatTexts == { <<"h","i">>, <<"D","i","e","t">> }

\* texts the provider may answer with, and messages of the exceptions it may raise
Replies == { <<"a reply of the model">> }
Errors == { <<"503 unavailable">> }

----------------------------------------------------------------------------
(* str.lower() and the substring test *)

UpperCase == <<"A","B","C","D","E","F","G","H","I","J","K","L","M",
               "N","O","P","Q","R","S","T","U","V","W","X","Y","Z">>
LowerCase == <<"a","b","c","d","e","f","g","h","i","j","k","l","m",
               "n","o","p","q","r","s","t","u","v","w","x","y","z">>

LowerChar(c) ==
    IF \E i \in 1..Len(UpperCase) : UpperCase[i] = c
    THEN LowerCase[CHOOSE i \in 1..Len(UpperCase) : UpperCase[i] = c]
    ELSE c

lower(s) == [i \in 1..Len(s) |-> LowerChar(s[i])]

\* Python's  sub in s  for strings
Contains(sub, s) ==
    \E i \in 0..(Len(s) - Len(sub)) : SubSeq(s, i + 1, i + Len(sub)) = sub

crisis_keywords ==
    << <<"s","u","i","c","i","d","e">>,
       <<"k","i","l","l"," ","m","y","s","e","l","f">>,
       <<"e","n","d"," ","i","t"," ","a","l","l">>,
       <<"h","u","r","t"," ","m","y","s","e","l","f">>,
       <<"d","i","e">>,
       <<"w","o","r","t","h","l","e","s","s">> >>

\* the filter without .lower()
check_crisis_keywords_case_sensitive(message) ==
    \E k \in 1..Len(crisis_keywords) : Contains(crisis_keywords[k], message)

\* the filter testing  message.lower() in crisis_keywords
check_crisis_keywords_whole_message(message) ==
    \E k \in 1..Len(crisis_keywords) : crisis_keywords[k] = lower(message)

check_crisis_keywords(message) ==
    \E k \in 1..Len(crisis_keywords) : Contains(crisis_keywords[k], lower(message))

get_crisis_response == <<"I'm concerned about what you've shared. ... Please reach out immediately: ... 104 ... 1800-599-0019 ... 9999666555 ... 9152987821 ...">>

----------------------------------------------------------------------------
(* Strings the script builds *)

Greeting(key) ==
    <<"Hello! I'm ", PERSONALITIES[key].name, ", your ", PERSONALITIES[key].role,
      ". How can I support you today?">>

GreetingMessage(key) == [role |-> "assistant", content |-> Greeting(key)]

ContextPrompt(key, prompt) ==
    <<"As ", PERSONALITIES[key].name, ", a ", PERSONALITIES[key].role, ", respond to: ">>
    \o prompt \o <<" Remember: ", PERSONALITIES[key].prompt>>

Apology(e) == <<"I apologize, but I encountered an error: ">> \o e \o <<". Please try again.">>

NoneTypeError == <<"'NoneType' object has no attribute 'send_message'">>

----------------------------------------------------------------------------
(* The provider's chat session *)

\* model.start_chat(history=[...]) of initialize_chat_session
StartChat(key) ==
    [history |->
        << [role |-> "user",
            parts |-> <<"Hello, I need help with family wellness and development.">>],
           [role |-> "model",
            parts |-> <<PERSONALITIES[key].prompt, "\n\n">> \o Greeting(key)] >>]

\* initialize_chat_session: the value it returns and the session it leaves
initialize_chat_session(m, cs, key) ==
    IF m = None
    THEN [ok |-> FALSE, chat_session |-> cs]
    ELSE [ok |-> TRUE,  chat_session |-> <<StartChat(key)>>]

\* send_message that forgets what the session held before
SendMessage_replaces_history(cs, sent, reply) ==
    <<[history |-> << [role |-> "user",  parts |-> sent],
                      [role |-> "model", parts |-> reply] >>]>>

\* the chat session after send_message(sent) was answered with reply
SendMessage(cs, sent, reply) ==
    <<[history |-> cs[1].history \o << [role |-> "user",  parts |-> sent],
                                       [role |-> "model", parts |-> reply] >>]>>

\* "Initialize chat session if needed" of the chat column
InitIfNeeded(msgs, cs, m, key) ==
    IF cs = None
    THEN LET r == initialize_chat_session(m, cs, key)
         IN  IF r.ok
             THEN [messages |-> Append(msgs, GreetingMessage(key)),
                   chat_session |-> r.chat_session]
             ELSE [messages |-> msgs, chat_session |-> r.chat_session]
    ELSE [messages |-> msgs, chat_session |-> cs]

----------------------------------------------------------------------------
(* Quick Assessment *)

\* the cascade with the third rule tested before the second
Recommend_spark_first(age_group, concern, mood) ==
    IF age_group \in {"13-17", "18-25"} /\ concern \in {"Mental health", "Academic stress"}
    THEN "sage"
    ELSE IF concern = "Child development"
    THEN "spark"
    ELSE IF age_group = "Parent/Guardian" /\ concern \in {"Parenting", "Child development"}
    THEN "nurture"
    ELSE "bridge"

Recommend(age_group, concern, mood) ==
    IF age_group \in {"13-17", "18-25"} /\ concern \in {"Mental health", "Academic stress"}
    THEN "sage"
    ELSE IF age_group = "Parent/Guardian" /\ concern \in {"Parenting", "Child development"}
    THEN "nurture"
    ELSE IF concern = "Child development"
    THEN "spark"
    ELSE "bridge"

----------------------------------------------------------------------------
(* The record of the most recent run the user triggered *)

Did(op, arg, branch, probe_calls, chat_calls, sent) ==
    [op |-> op, arg |-> arg, branch |-> branch,
     probe_calls |-> probe_calls, chat_calls |-> chat_calls, sent |-> sent]

UserTurns(msgs) == Cardinality({i \in 1..Len(msgs) : msgs[i].role = "user"})

\* the second session before its first run: locked, nothing typed
PeerInit == [pc |-> "rest", api_key |-> "", api_key_valid |-> FALSE, model |-> None]

Init ==
    /\ messages = <<>>
    /\ personality = "sage"
    /\ chat_session = None
    /\ api_key_valid = FALSE
    /\ model = None
    /\ configured_key = None
    /\ pc = "rest"
    /\ last = Did("start", None, "none", 0, 0, None)
    /\ peer = PeerInit

----------------------------------------------------------------------------
(* The provider *)

\* what one call of the provider comes back with: a response whose text can
\* be read, a response whose .text raises, or an exception of the call itself
ProviderAnswers ==
    {[ok |-> TRUE, readable |-> TRUE, text |-> r] : r \in Replies} \cup
    {[ok |-> TRUE, readable |-> FALSE, text |-> e] : e \in Errors} \cup
    {[ok |-> FALSE, readable |-> FALSE, text |-> e] : e \in Errors}

\* validate_api_key returning True from its except branch
validate_api_key_accepts_failure(api_key, answer) ==
    [is_valid |-> TRUE,
     result |-> IF answer.ok THEN <<[api_key |-> api_key]>> ELSE answer.text,
     configured |-> <<api_key>>, probe_calls |-> 1]

\* validate_api_key that accepts any key without calling the provider
validate_api_key_no_probe(api_key, answer) ==
    [is_valid |-> TRUE, result |-> <<[api_key |-> api_key]>>,
     configured |-> <<api_key>>, probe_calls |-> 0]

\* validate_api_key: configure the library, build a model, probe it once
validate_api_key(api_key, answer) ==
    IF answer.ok
    THEN [is_valid |-> TRUE,  result |-> <<[api_key |-> api_key]>>,
          configured |-> <<api_key>>, probe_calls |-> 1]
    ELSE [is_valid |-> FALSE, result |-> answer.text,
          configured |-> <<api_key>>, probe_calls |-> 1]

----------------------------------------------------------------------------
(* Runs of the script *)

\* the key page without its st.stop()
MainPageReached_no_stop == TRUE

\* the key page ends the run with st.stop() unless the key was validated
MainPageReached == api_key_valid

\* the button "Validate & Start" of the key page
ValidateAndStart(api_key, answer) ==
    /\ pc = "rest"
    /\ UNCHANGED peer
    /\ ~api_key_valid
    /\ IF api_key # ""
       THEN LET v == validate_api_key(api_key, answer)
            IN  /\ configured_key' = v.configured
                /\ IF v.is_valid
                   THEN /\ api_key_valid' = TRUE
                        /\ model' = v.result
                        /\ pc' = "rerun"
                        /\ last' = Did("validate", [api_key |-> api_key, probe_ok |-> answer.ok],
                                       "valid", v.probe_calls, 0, None)
                   ELSE /\ UNCHANGED <<api_key_valid, model, pc>>
                        /\ last' = Did("validate", [api_key |-> api_key, probe_ok |-> answer.ok],
                                       "invalid", v.probe_calls, 0, None)
       ELSE /\ UNCHANGED <<api_key_valid, model, pc, configured_key>>
            /\ last' = Did("validate", [api_key |-> api_key, probe_ok |-> FALSE],
                           "empty", 0, 0, None)
    /\ UNCHANGED <<messages, personality, chat_session>>

\* the rest of a run of the main page in which no handler fired
ChatColumn(op, arg, branch) ==
    LET r == InitIfNeeded(messages, chat_session, model, personality)
    IN  /\ messages' = r.messages
        /\ chat_session' = r.chat_session
        /\ last' = Did(op, arg, branch, 0, 0, None)
        /\ UNCHANGED <<personality, api_key_valid, model, configured_key, pc>>

\* a persona button that switches without emptying the log
PersonaButton_keeps_log(key) ==
    /\ pc = "rest"
    /\ UNCHANGED peer
    /\ MainPageReached
    /\ IF key # personality
       THEN /\ personality' = key
            /\ chat_session' = None
            /\ pc' = "rerun"
            /\ last' = Did("persona", key, "switched", 0, 0, None)
            /\ UNCHANGED <<messages, api_key_valid, model, configured_key>>
       ELSE ChatColumn("persona", key, "same")

\* a persona button without the test  key != st.session_state.personality
PersonaButton_always_resets(key) ==
    /\ pc = "rest"
    /\ UNCHANGED peer
    /\ MainPageReached
    /\ personality' = key
    /\ messages' = <<>>
    /\ chat_session' = None
    /\ pc' = "rerun"
    /\ last' = Did("persona", key, IF key # personality THEN "switched" ELSE "same", 0, 0, None)
    /\ UNCHANGED <<api_key_valid, model, configured_key>>

\* one of the four persona buttons
PersonaButton(key) ==
    /\ pc = "rest"
    /\ UNCHANGED peer
    /\ MainPageReached
    /\ IF key # personality
       THEN /\ personality' = key
            /\ messages' = <<>>
            /\ chat_session' = None
            /\ pc' = "rerun"
            /\ last' = Did("persona", key, "switched", 0, 0, None)
            /\ UNCHANGED <<api_key_valid, model, configured_key>>
       ELSE ChatColumn("persona", key, "same")

\* "Get Recommendation" that switches the persona and resets nothing
GetRecommendation_no_reset(age_group, concern, mood) ==
    /\ pc = "rest"
    /\ UNCHANGED peer
    /\ MainPageReached
    /\ LET rec_personality == Recommend(age_group, concern, mood)
           arg == [age_group |-> age_group, concern |-> concern, mood |-> mood,
                   rec_personality |-> rec_personality]
       IN  IF rec_personality # personality
           THEN /\ personality' = rec_personality
                /\ pc' = "rerun"
                /\ last' = Did("assess", arg, "switched", 0, 0, None)
                /\ UNCHANGED <<messages, chat_session, api_key_valid, model, configured_key>>
           ELSE ChatColumn("assess", arg, "same")

\* the button "Get Recommendation" of the Quick Assessment
GetRecommendation(age_group, concern, mood) ==
    /\ pc = "rest"
    /\ UNCHANGED peer
    /\ MainPageReached
    /\ LET rec_personality == Recommend(age_group, concern, mood)
           arg == [age_group |-> age_group, concern |-> concern, mood |-> mood,
                   rec_personality |-> rec_personality]
       IN  IF rec_personality # personality
           THEN /\ personality' = rec_personality
                /\ messages' = <<>>
                /\ chat_session' = None
                /\ pc' = "rerun"
                /\ last' = Did("assess", arg, "switched", 0, 0, None)
                /\ UNCHANGED <<api_key_valid, model, configured_key>>
           ELSE ChatColumn("assess", arg, "same")

\* "Clear Chat" that empties the log and keeps the chat session
ClearChat_keeps_session ==
    /\ pc = "rest"
    /\ UNCHANGED peer
    /\ MainPageReached
    /\ messages' = <<>>
    /\ pc' = "rerun"
    /\ last' = Did("clear", None, "cleared", 0, 0, None)
    /\ UNCHANGED <<chat_session, personality, api_key_valid, model, configured_key>>

\* the button "Clear Chat"
ClearChat ==
    /\ pc = "rest"
    /\ UNCHANGED peer
    /\ MainPageReached
    /\ messages' = <<>>
    /\ chat_session' = None
    /\ pc' = "rerun"
    /\ last' = Did("clear", None, "cleared", 0, 0, None)
    /\ UNCHANGED <<personality, api_key_valid, model, configured_key>>

\* "Change API Key" that forgets to drop the model
ChangeApiKey_keeps_model ==
    /\ pc = "rest"
    /\ UNCHANGED peer
    /\ MainPageReached
    /\ api_key_valid' = FALSE
    /\ messages' = <<>>
    /\ chat_session' = None
    /\ pc' = "rerun"
    /\ last' = Did("change_key", None, "revoked", 0, 0, None)
    /\ UNCHANGED <<personality, configured_key, model>>

\* "Change API Key" that also puts the persona back to its default
ChangeApiKey_resets_persona ==
    /\ pc = "rest"
    /\ UNCHANGED peer
    /\ MainPageReached
    /\ api_key_valid' = FALSE
    /\ model' = None
    /\ messages' = <<>>
    /\ chat_session' = None
    /\ personality' = "sage"
    /\ pc' = "rerun"
    /\ last' = Did("change_key", None, "revoked", 0, 0, None)
    /\ UNCHANGED configured_key

\* the button "Change API Key"
ChangeApiKey ==
    /\ pc = "rest"
    /\ UNCHANGED peer
    /\ MainPageReached
    /\ api_key_valid' = FALSE
    /\ model' = None
    /\ messages' = <<>>
    /\ chat_session' = None
    /\ pc' = "rerun"
    /\ last' = Did("change_key", None, "revoked", 0, 0, None)
    /\ UNCHANGED <<personality, configured_key>>

\* the except branch answering with an empty text
GenerateResponse_swallows_error(key, cs, prompt, answer) ==
    LET sent == ContextPrompt(key, prompt)
    IN  IF check_crisis_keywords(prompt)
        THEN [response |-> get_crisis_response, chat_session |-> cs,
              branch |-> "crisis", chat_calls |-> 0, sent |-> None]
        ELSE IF cs = None
        THEN [response |-> <<>>, chat_session |-> cs,
              branch |-> "error", chat_calls |-> 0, sent |-> None]
        ELSE IF answer.ok /\ answer.readable
        THEN [response |-> answer.text, chat_session |-> SendMessage(cs, sent, answer.text),
              branch |-> "reply", chat_calls |-> 1, sent |-> <<sent>>]
        ELSE IF answer.ok
        THEN [response |-> <<>>, chat_session |-> SendMessage(cs, sent, <<>>),
              branch |-> "error", chat_calls |-> 1, sent |-> <<sent>>]
        ELSE [response |-> <<>>, chat_session |-> cs,
              branch |-> "error", chat_calls |-> 1, sent |-> <<sent>>]

\* the answer to a prompt: the crisis text, the model's text or the apology
GenerateResponse(key, cs, prompt, answer) ==
    LET sent == ContextPrompt(key, prompt)
    IN  IF check_crisis_keywords(prompt)
        THEN [response |-> get_crisis_response, chat_session |-> cs,
              branch |-> "crisis", chat_calls |-> 0, sent |-> None]
        ELSE IF cs = None
        THEN [response |-> Apology(NoneTypeError), chat_session |-> cs,
              branch |-> "error", chat_calls |-> 0, sent |-> None]
        ELSE IF answer.ok /\ answer.readable
        THEN [response |-> answer.text, chat_session |-> SendMessage(cs, sent, answer.text),
              branch |-> "reply", chat_calls |-> 1, sent |-> <<sent>>]
        ELSE IF answer.ok
        THEN \* send_message returned and recorded the exchange; .text raised
             [response |-> Apology(answer.text), chat_session |-> SendMessage(cs, sent, <<>>),
              branch |-> "error", chat_calls |-> 1, sent |-> <<sent>>]
        ELSE \* send_message raised
             [response |-> Apology(answer.text), chat_session |-> cs,
              branch |-> "error", chat_calls |-> 1, sent |-> <<sent>>]

\* a chat handler that appends the answer only when the provider gave one
ChatInput_drops_failed_answer(prompt, answer) ==
    /\ pc = "rest"
    /\ UNCHANGED peer
    /\ MainPageReached
    /\ UserTurns(messages) < MaxTurns
    /\ LET r == InitIfNeeded(messages, chat_session, model, personality)
           logged == Append(r.messages, [role |-> "user", content |-> prompt])
           g == GenerateResponse(personality, r.chat_session, prompt, answer)
       IN  /\ messages' = IF g.branch = "error" THEN logged
                          ELSE Append(logged, [role |-> "assistant", content |-> g.response])
           /\ chat_session' = g.chat_session
           /\ last' = Did("chat", [prompt |-> prompt,
                           failed |-> g.chat_calls > 0 /\ ~(answer.ok /\ answer.readable)],
                          g.branch, 0, g.chat_calls, g.sent)
    /\ pc' = "rerun"
    /\ UNCHANGED <<personality, api_key_valid, model, configured_key>>

\* a message submitted in the chat input
ChatInput(prompt, answer) ==
    /\ pc = "rest"
    /\ UNCHANGED peer
    /\ MainPageReached
    /\ UserTurns(messages) < MaxTurns
    /\ LET r == InitIfNeeded(messages, chat_session, model, personality)
           logged == Append(r.messages, [role |-> "user", content |-> prompt])
           g == GenerateResponse(personality, r.chat_session, prompt, answer)
       IN  /\ messages' = Append(logged, [role |-> "assistant", content |-> g.response])
           /\ chat_session' = g.chat_session
           /\ last' = Did("chat", [prompt |-> prompt,
                           failed |-> g.chat_calls > 0 /\ ~(answer.ok /\ answer.readable)],
                          g.branch, 0, g.chat_calls, g.sent)
    /\ pc' = "rerun"
    /\ UNCHANGED <<personality, api_key_valid, model, configured_key>>

\* a run in which no button fired: a select box, the slider or the key field changed
WidgetChange ==
    /\ pc = "rest"
    /\ UNCHANGED peer
    /\ IF MainPageReached
       THEN ChatColumn("widget", None, "none")
       ELSE /\ last' = Did("widget", None, "none", 0, 0, None)
            /\ UNCHANGED <<messages, personality, chat_session, api_key_valid,
                           model, configured_key, pc>>

\* a rerun whose session state initialization is not guarded by
\* 'messages' not in st.session_state
Rerun_reinitializes ==
    /\ pc = "rerun"
    /\ UNCHANGED peer
    /\ pc' = "rest"
    /\ IF MainPageReached
       THEN LET r == InitIfNeeded(<<>>, chat_session, model, personality)
            IN  /\ messages' = r.messages
                /\ chat_session' = r.chat_session
       ELSE /\ messages' = <<>>
            /\ UNCHANGED chat_session
    /\ UNCHANGED <<personality, api_key_valid, model, configured_key, last>>

\* the run st.rerun() starts
Rerun ==
    /\ pc = "rerun"
    /\ UNCHANGED peer
    /\ pc' = "rest"
    /\ IF MainPageReached
       THEN LET r == InitIfNeeded(messages, chat_session, model, personality)
            IN  /\ messages' = r.messages
                /\ chat_session' = r.chat_session
       ELSE UNCHANGED <<messages, chat_session>>
    /\ UNCHANGED <<personality, api_key_valid, model, configured_key, last>>

Next ==
    \/ \E api_key \in ApiKeys, answer \in ProviderAnswers : ValidateAndStart(api_key, answer)
    \/ \E key \in PersonalityKeys : PersonaButton(key)
    \/ \E age_group \in AgeGroups, concern \in Concerns, mood \in Moods :
            GetRecommendation(age_group, concern, mood)
    \/ ClearChat
    \/ ChangeApiKey
    \/ \E prompt \in ChatTexts, answer \in ProviderAnswers : ChatInput(prompt, answer)
    \/ WidgetChange
    \/ Rerun

Spec == Init /\ [][Next]_vars

----------------------------------------------------------------------------
(* The crisis filter on its own: check_crisis_keywords applied to texts    *)
(* put together from fragments of the phrases, in both cases.              *)

Fragments ==
    { <<"S","u","i">>, <<"c","i","d","e">>,
      <<"k","i","l","l"," ">>, <<"M","Y","s","e","l","f">>,
      <<"e","n","d"," ","i","t">>, <<" ","a","l","l">>,
      <<"h","u","r","t"," ">>,
      <<"d">>, <<"I","E">>,
      <<"w","o","r","t","h">>, <<"L","E","S","S">>,
      <<"x"," ">>, <<"m","y">> }

RECURSIVE TextsOf(_)
TextsOf(n) ==
    IF n = 0 THEN { <<>> }
    ELSE LET shorter == TextsOf(n - 1)
         IN  shorter \cup { t \o f : t \in shorter, f \in Fragments }

InitCrisis ==
    /\ messages = <<>>
    /\ personality = "sage"
    /\ chat_session = None
    /\ api_key_valid = FALSE
    /\ model = None
    /\ configured_key = None
    /\ pc = "rest"
    /\ \E text \in TextsOf(MaxParts) : last = Did("text", text, "none", 0, 0, None)
    /\ peer = PeerInit

Classify ==
    /\ last.op = "text"
    /\ UNCHANGED peer
    /\ last' = Did("classify", last.arg,
                   IF check_crisis_keywords(last.arg) THEN "flagged" ELSE "passed",
                   0, 0, None)
    /\ UNCHANGED <<messages, personality, chat_session, api_key_valid, model,
                   configured_key, pc>>

NextCrisis == Classify

SpecCrisis == InitCrisis /\ [][NextCrisis]_vars

----------------------------------------------------------------------------
(* Two sessions of one process.  Each session has its own st.session_state *)
(* and runs its script in its own thread; genai.configure() writes the one *)
(* configuration of the library.  validate_api_key is therefore taken in   *)
(* two steps, the configure() of line 82 and the probe of lines 83-85,     *)
(* which builds the model's client from the configuration it finds.  The   *)
(* other handlers touch nothing but their own session and stay one step.   *)

\* the keys a second user may submit
PeerKeys == ApiKeys \ {""}

\* "Validate & Start" up to and including genai.configure(api_key)
ValidateConfigure(api_key) ==
    /\ pc = "rest"
    /\ UNCHANGED peer
    /\ ~api_key_valid
    /\ IF api_key # ""
       THEN /\ configured_key' = <<api_key>>
            /\ pc' = "probe"
            /\ last' = Did("validate", [api_key |-> api_key, probe_ok |-> FALSE],
                           "configured", 0, 0, None)
       ELSE /\ UNCHANGED <<configured_key, pc>>
            /\ last' = Did("validate", [api_key |-> api_key, probe_ok |-> FALSE],
                           "empty", 0, 0, None)
    /\ UNCHANGED <<messages, personality, chat_session, api_key_valid, model>>

\* the rest of "Validate & Start": the model is built and probed with the
\* key the library is configured with by now
ValidateProbe(answer) ==
    /\ pc = "probe"
    /\ UNCHANGED peer
    /\ LET v == validate_api_key(configured_key[1], answer)
       IN  IF v.is_valid
           THEN /\ api_key_valid' = TRUE
                /\ model' = v.result
                /\ pc' = "rerun"
                /\ last' = Did("validate", [api_key |-> last.arg.api_key, probe_ok |-> answer.ok],
                               "valid", v.probe_calls, 0, None)
           ELSE /\ pc' = "rest"
                /\ last' = Did("validate", [api_key |-> last.arg.api_key, probe_ok |-> answer.ok],
                               "invalid", v.probe_calls, 0, None)
                /\ UNCHANGED <<api_key_valid, model>>
    /\ UNCHANGED <<messages, personality, chat_session, configured_key>>

\* the second session: "Validate & Start" up to genai.configure(api_key)
PeerConfigure(api_key) ==
    /\ peer.pc = "rest"
    /\ ~peer.api_key_valid
    /\ configured_key' = <<api_key>>
    /\ peer' = [peer EXCEPT !.pc = "probe", !.api_key = api_key]
    /\ UNCHANGED <<messages, personality, chat_session, api_key_valid, model, pc, last>>

\* the second session: the probe and what the handler stores
PeerProbe(answer) ==
    /\ peer.pc = "probe"
    /\ LET v == validate_api_key(configured_key[1], answer)
       IN  IF v.is_valid
           THEN peer' = [peer EXCEPT !.pc = "rest", !.api_key_valid = TRUE, !.model = v.result]
           ELSE peer' = [peer EXCEPT !.pc = "rest"]
    /\ UNCHANGED <<messages, personality, chat_session, api_key_valid, model,
                   configured_key, pc, last>>

\* the second session: "Change API Key"
PeerChangeApiKey ==
    /\ peer.pc = "rest"
    /\ peer.api_key_valid
    /\ peer' = [peer EXCEPT !.api_key_valid = FALSE, !.model = None]
    /\ UNCHANGED <<messages, personality, chat_session, api_key_valid, model,
                   configured_key, pc, last>>

NextSessions ==
    \/ \E api_key \in ApiKeys : ValidateConfigure(api_key)
    \/ \E answer \in ProviderAnswers : ValidateProbe(answer)
    \/ \E key \in PersonalityKeys : PersonaButton(key)
    \/ \E age_group \in AgeGroups, concern \in Concerns, mood \in Moods :
            GetRecommendation(age_group, concern, mood)
    \/ ClearChat
    \/ ChangeApiKey
    \/ \E prompt \in ChatTexts, answer \in ProviderAnswers : ChatInput(prompt, answer)
    \/ WidgetChange
    \/ Rerun
    \/ \E api_key \in PeerKeys : PeerConfigure(api_key)
    \/ \E answer \in ProviderAnswers : PeerProbe(answer)
    \/ PeerChangeApiKey

SpecSessions == Init /\ [][NextSessions]_vars

----------------------------------------------------------------------------
(* Properties *)

\* the six phrases of the crisis filter
CrisisPhrases ==
    { <<"s","u","i","c","i","d","e">>,
      <<"k","i","l","l"," ","m","y","s","e","l","f">>,
      <<"e","n","d"," ","i","t"," ","a","l","l">>,
      <<"h","u","r","t"," ","m","y","s","e","l","f">>,
      <<"d","i","e">>,
      <<"w","o","r","t","h","l","e","s","s">> }

\* character c is the lower-case letter k or its capital
SameLetter(c, k) ==
    c = k \/ \E i \in 1..Len(LowerCase) : LowerCase[i] = k /\ UpperCase[i] = c

\* phrase occurs in text at some offset, whatever the case of the letters
HasPhrase(text, phrase) ==
    \E off \in 0..(Len(text) - Len(phrase)) :
        \A j \in 1..Len(phrase) : SameLetter(text[off + j], phrase[j])

HasCrisisPhrase(text) == \E phrase \in CrisisPhrases : HasPhrase(text, phrase)

\* C1: a chat message containing a crisis phrase, in any case, is answered
\* without any call of send_message, and the assistant message appended for
\* the turn is exactly the static crisis message.
C1_CrisisTurnIntercepted ==
    (last.op = "chat" /\ HasCrisisPhrase(last.arg.prompt)) =>
        /\ last.chat_calls = 0
        /\ Len(messages) >= 2
        /\ messages[Len(messages) - 1] = [role |-> "user", content |-> last.arg.prompt]
        /\ messages[Len(messages)] = [role |-> "assistant", content |-> get_crisis_response]

C1_Witness ==
    /\ last.op = "chat"
    /\ last.arg.prompt = <<"D","i","e","t">>
    /\ last.chat_calls = 0
    /\ messages[Len(messages)].content = get_crisis_response

\* C2: check_crisis_keywords(text) is true exactly when one of the six
\* phrases occurs in the text as a substring, ignoring the case of the
\* letters, also inside a longer word; it is false for every other text.
C2_FilterIsSubstringMatch ==
    last.op = "classify" =>
        ((last.branch = "flagged") <=> HasCrisisPhrase(last.arg))

C2_Witness ==
    /\ last.op = "classify"
    /\ last.branch = "flagged"
    /\ last.arg = <<"d","I","E","m","y">>

\* C3: the stored model or the stored chat session is not None only if
\* api_key_valid is true.
C3_HandleOnlyIfValid ==
    (model # None \/ chat_session # None) => api_key_valid

C3_Witness ==
    /\ last.op = "validate"
    /\ api_key_valid
    /\ model # None
    /\ chat_session # None
    /\ configured_key = <<"key-B">>

\* C4: a switch to another persona, by a persona button or by Get
\* Recommendation, leaves the log empty, and after the run that follows the
\* log is exactly the greeting of the newly active persona.
C4_SwitchRestartsLog ==
    (last.op \in {"persona", "assess"} /\ last.branch = "switched") =>
        /\ personality = (IF last.op = "persona" THEN last.arg ELSE last.arg.rec_personality)
        /\ pc = "rerun" => messages = <<>>
        /\ pc = "rest" =>
              /\ Len(messages) = 1
              /\ messages[1] = [role |-> "assistant",
                                content |-> <<"Hello! I'm ", PERSONALITIES[personality].name,
                                              ", your ", PERSONALITIES[personality].role,
                                              ". How can I support you today?">>]

C4_Witness ==
    /\ last.op = "assess"
    /\ last.branch = "switched"
    /\ pc = "rest"
    /\ personality = "spark"
    /\ messages = <<GreetingMessage("spark")>>

\* text holds the apology of the chat handler
IsApology(text) ==
    /\ Len(text) >= 2
    /\ text[1] = "I apologize, but I encountered an error: "
    /\ text[Len(text)] = ". Please try again."

\* C5: a chat turn whose provider call fails appends the user's message and
\* then one assistant message holding the apology, changes no earlier entry,
\* calls the provider once only and leaves the session unlocked and usable.
C5_FailedCallAppendsApology ==
    [][ (pc = "rest" /\ pc' = "rerun" /\ last'.op = "chat" /\ last'.arg.failed) =>
            /\ Len(messages') = Len(messages) + 2
            /\ SubSeq(messages', 1, Len(messages)) = messages
            /\ messages'[Len(messages) + 1] = [role |-> "user", content |-> last'.arg.prompt]
            /\ messages'[Len(messages) + 2].role = "assistant"
            /\ IsApology(messages'[Len(messages) + 2].content)
            /\ last'.chat_calls = 1
            /\ api_key_valid' /\ model' # None /\ chat_session' # None ]_vars

C5_Witness ==
    /\ pc = "rest"
    /\ Len(messages) = 5
    /\ IsApology(messages[3].content)
    /\ last.op = "chat"
    /\ last.branch = "reply"

\* C6: a submission whose probe succeeds sets api_key_valid and stores a
\* model; one whose probe fails leaves api_key_valid false and the model
\* None, the log and the persona as they were, and the key page ready for
\* another submission.
C6_ProbeDecidesUnlock ==
    [][ (pc = "rest" /\ ~api_key_valid /\ last'.op = "validate" /\ last'.probe_calls = 1) =>
            IF last'.arg.probe_ok
            THEN api_key_valid' /\ model' # None
            ELSE /\ ~api_key_valid' /\ model' = None
                 /\ messages' = messages /\ personality' = personality
                 /\ pc' = "rest" ]_vars

C6_Witness ==
    /\ last.op = "validate"
    /\ last.arg.probe_ok
    /\ last.probe_calls = 1
    /\ api_key_valid
    /\ model = <<[api_key |-> "key-A"]>>
    /\ pc = "rerun"

\* C7: after Clear Chat or Change API Key the log is empty and the chat
\* session None; the run after Clear Chat leaves exactly the greeting of the
\* active persona; after Change API Key the session is locked, and while it
\* is locked the log is empty.
C7_ClearAndRevokeReset ==
    /\ (last.op \in {"clear", "change_key"} /\ pc = "rerun") =>
            (messages = <<>> /\ chat_session = None)
    /\ (last.op = "clear" /\ pc = "rest") =>
            (api_key_valid /\ messages = <<GreetingMessage(personality)>>)
    /\ last.op = "change_key" => (~api_key_valid /\ messages = <<>> /\ chat_session = None)
    /\ ~api_key_valid => messages = <<>>

C7_Witness ==
    /\ last.op = "clear"
    /\ pc = "rest"
    /\ personality = "nurture"
    /\ messages = <<GreetingMessage("nurture")>>

\* C8: while api_key_valid is false no step appends a greeting or a chat
\* turn or calls send_message; the runs possible are a credential submission
\* and a run of the key page.
C8_LockedDoesNotChat ==
    [][ ~api_key_valid =>
            /\ messages' = messages
            /\ chat_session' = chat_session
            /\ last'.chat_calls = 0
            /\ last'.op \in {"start", "validate", "widget", "change_key"} ]_vars

C8_Witness ==
    /\ ~api_key_valid
    /\ pc = "rest"
    /\ last.op = "validate"
    /\ last.branch = "invalid"
    /\ last.probe_calls = 1
    /\ messages = <<>>

\* the decision table of the recommendation, one row per persona
TableResult(age_group, concern) ==
    LET youth == age_group \in {"13-17", "18-25"} /\ concern \in {"Mental health", "Academic stress"}
        parent == age_group = "Parent/Guardian" /\ concern \in {"Parenting", "Child development"}
        child == concern = "Child development"
    IN  CHOOSE p \in PersonalityKeys :
            /\ p = "sage" <=> youth
            /\ p = "nurture" <=> (~youth /\ parent)
            /\ p = "spark" <=> (~youth /\ ~parent /\ child)
            /\ p = "bridge" <=> (~youth /\ ~parent /\ ~child)

\* C9: Get Recommendation picks the persona of the first matching row of the
\* table for every age group and concern, whatever the mood.
C9_RecommendationTable ==
    last.op = "assess" =>
        /\ last.arg.rec_personality = TableResult(last.arg.age_group, last.arg.concern)
        /\ personality = last.arg.rec_personality
        /\ (last.arg.age_group = "13-17" /\ last.arg.concern = "Mental health")
                => personality = "sage"
        /\ (last.arg.age_group = "Parent/Guardian" /\ last.arg.concern = "Parenting")
                => personality = "nurture"
        /\ (last.arg.age_group = "Other" /\ last.arg.concern = "Child development")
                => personality = "spark"
        /\ (last.arg.age_group = "Other" /\ last.arg.concern = "Family communication")
                => personality = "bridge"

C9_Witness ==
    /\ last.op = "assess"
    /\ last.arg.age_group = "Parent/Guardian"
    /\ last.arg.concern = "Child development"
    /\ last.arg.mood = MoodMax
    /\ personality = "nurture"

\* C10: at rest a non-empty log starts with the assistant greeting that
\* names the active persona, so every user message comes after it.
C10_GreetingFirst ==
    (pc = "rest" /\ messages # <<>>) =>
        /\ messages[1].role = "assistant"
        /\ Len(messages[1].content) = 5
        /\ messages[1].content[1] = "Hello! I'm "
        /\ messages[1].content[2] = PERSONALITIES[personality].name
        /\ \A i \in 1..Len(messages) : messages[i].role = "user" => i > 1

C10_Witness ==
    /\ pc = "rest"
    /\ personality = "bridge"
    /\ Len(messages) = 3
    /\ messages[2].role = "user"
    /\ messages[1].content[2] = "Bridge"

\* C11: no step of one session changes the log, the persona, the lock
\* state or the chat session of the other, and the model a session stores is
\* bound to the key that session submitted.
C11_SessionsIsolated ==
    [][ /\ peer' # peer =>
              UNCHANGED <<messages, personality, chat_session, api_key_valid, model>>
        /\ <<messages, personality, chat_session, api_key_valid, model>>'
              # <<messages, personality, chat_session, api_key_valid, model>> =>
              peer' = peer
        /\ (last'.op = "validate" /\ last'.branch = "valid") =>
              model' = <<[api_key |-> last'.arg.api_key]>>
        /\ peer'.model # None => peer'.model = <<[api_key |-> peer'.api_key]>> ]_vars

\* a message of the log is held by a history: some entry of the same side
\* has the message's text in its parts
HeldBy(msg, hist) ==
    \E j \in 1..Len(hist) :
        /\ hist[j].role = (IF msg.role = "user" THEN "user" ELSE "model")
        /\ Contains(msg.content, hist[j].parts)

\* a run of the chat handler that calls send_message
CallsProvider == pc = "rest" /\ pc' = "rerun" /\ last'.op = "chat" /\ last'.chat_calls = 1

\* C12 as stated: whenever send_message is called, the history of the chat
\* session holds every message of the log, also those of turns answered by
\* the crisis message or the apology.
C12_FullLogInHistory ==
    [][ CallsProvider =>
            /\ chat_session # None
            /\ \A i \in 1..Len(messages) : HeldBy(messages[i], chat_session[1].history) ]_vars

\* hist from entry h on is what the turns of the log from message i on left
\* in the chat session: nothing for a turn answered by the crisis message,
\* the context prompt and the reply for an answered turn, and for a turn
\* answered by the apology either nothing or the prompt with a response
\* that has no text
RECURSIVE HistoryFits(_, _, _, _, _)
HistoryFits(hist, h, msgs, i, key) ==
    IF i + 1 > Len(msgs)
    THEN h = Len(hist) + 1
    ELSE LET asked == [role |-> "user", parts |-> ContextPrompt(key, msgs[i].content)]
             answer == msgs[i + 1].content
             recorded(parts) == /\ h + 1 <= Len(hist)
                                /\ hist[h] = asked
                                /\ hist[h + 1] = [role |-> "model", parts |-> parts]
                                /\ HistoryFits(hist, h + 2, msgs, i + 2, key)
         IN  IF answer = get_crisis_response
             THEN HistoryFits(hist, h, msgs, i + 2, key)
             ELSE IF IsApology(answer)
             THEN HistoryFits(hist, h, msgs, i + 2, key) \/ recorded(<<>>)
             ELSE recorded(answer)

\* C12, amended: whenever send_message is called, the history of the chat
\* session is the seeded opening exchange followed, in order, by the context
\* prompt and the response of each earlier turn on which send_message
\* returned; a turn answered by the crisis message is never in it.
C12_HistoryIsAnsweredTurns ==
    [][ CallsProvider =>
            /\ chat_session # None
            /\ Len(chat_session[1].history) >= 2
            /\ SubSeq(chat_session[1].history, 1, 2) = StartChat(personality).history
            /\ HistoryFits(chat_session[1].history, 3, messages, 2, personality)
            /\ last'.sent = <<ContextPrompt(personality, last'.arg.prompt)>> ]_vars

C12_Witness ==
    /\ last.op = "chat"
    /\ last.chat_calls = 1
    /\ last.branch = "reply"
    /\ Len(messages) = 5
    /\ messages[3].content = get_crisis_response
    /\ Len(chat_session[1].history) = 4

\* a step that is one of the full-session resets
ResetStep ==
    /\ pc = "rest"
    /\ pc' = "rerun"
    /\ \/ last'.op \in {"persona", "assess"} /\ personality' # personality
       \/ last'.op \in {"clear", "change_key"}

\* C13: every step that is not a persona switch, Clear Chat or Change API
\* Key leaves the log it found as a prefix of the log it leaves.
C13_LogGrowsByAppending ==
    [][ ~ResetStep =>
            /\ Len(messages') >= Len(messages)
            /\ SubSeq(messages', 1, Len(messages)) = messages ]_vars

C13_Witness ==
    /\ pc = "rest"
    /\ Len(messages) = 5
    /\ last.op = "widget"

\* C14: a submission of a non-empty key makes exactly one probe call,
\* accepted or not; a submission of the empty key makes no provider call and
\* leaves the session locked with no model.
C14_OneProbePerSubmission ==
    last.op = "validate" =>
        /\ last.chat_calls = 0
        /\ IF last.arg.api_key # ""
           THEN last.probe_calls = 1
           ELSE last.probe_calls = 0 /\ ~api_key_valid /\ model = None /\ chat_session = None

C14_Witness ==
    /\ last.op = "validate"
    /\ last.arg.api_key = ""
    /\ last.probe_calls = 0
    /\ ~api_key_valid
    /\ configured_key = <<"key-B">>

\* C15: pressing the button of the active persona, or Get Recommendation
\* whose result is the active persona, changes neither the persona nor the
\* log nor the chat session and starts no rerun.
C15_SamePersonaNoReset ==
    [][ (pc = "rest" /\ api_key_valid
         /\ \/ last'.op = "persona" /\ last'.arg = personality
            \/ last'.op = "assess" /\ last'.arg.rec_personality = personality) =>
            /\ UNCHANGED <<personality, messages, chat_session>>
            /\ pc' = "rest" ]_vars

C15_Witness ==
    /\ last.op = "assess"
    /\ last.branch = "same"
    /\ last.arg.rec_personality = personality
    /\ personality = "bridge"
    /\ Len(messages) = 3

C17_PersonaKept ==
    [][ /\ last.op = "start" => personality = "sage"
        /\ personality' \in PersonalityKeys
        /\ personality' # personality =>
              (pc = "rest" /\ last'.op \in {"persona", "assess"})
        /\ (pc = "rerun" /\ last.op = "validate" /\ messages' # messages) =>
              messages' = <<GreetingMessage(personality)>> ]_vars

C17_Witness ==
    /\ last.op = "validate"
    /\ pc = "rest"
    /\ personality = "nurture"
    /\ messages = <<GreetingMessage("nurture")>>

====
